---- MODULE Spec2Model ----
(***************************************************************************)
(* caf.space zone translation: the spatial and weighted pipelines of       *)
(* ZoneTranslation (zone_translation.py), with the functions of            *)
(* zone_correspondence.py, weighted_funcs.py and utils.py they call.       *)
(*                                                                         *)
(* Geometry.  The plane is a grid of rectangular cells; a zone is the set  *)
(* of cells it covers, its area the sum of its cells' areas.  Two          *)
(* geometries "intersect" (shapely) when they share a cell or when a cell  *)
(* of one is a neighbour of a cell of the other; in the second case the    *)
(* intersection is a line or a point, of area 0.                           *)
(*                                                                         *)
(* Numbers.  A float is a pair <<n, d>>: the rational n/d with d > 0 in    *)
(* lowest terms, or <<0,0>> (NaN), <<1,0>> (+inf), <<-1,0>> (-inf).        *)
(* Arithmetic is exact; the IEEE results of division by zero are kept.     *)
(*                                                                         *)
(* Tables.  A factor table is a set of rows [a, b, f12, f21]: the zone_1   *)
(* id, the zone_2 id, zone_1_to_zone_2 and zone_2_to_zone_1.  `layout`     *)
(* records where the DataFrame holds the two ids: "columns" (a RangeIndex  *)
(* and four columns) or "index" (a MultiIndex and two columns).            *)
(***************************************************************************)
EXTENDS Integers, FiniteSets, Sequences, TLC

\* Columns of the strip the generated layers live on.
NCols == 3

None == "none"

(***************************************************************************)
(* Floats                                                                  *)
(***************************************************************************)
Abs(n) == IF n < 0 THEN -n ELSE n

Sign(n) == IF n < 0 THEN -1 ELSE IF n > 0 THEN 1 ELSE 0

RECURSIVE GCD(_, _)
GCD(m, n) == IF n = 0 THEN m ELSE GCD(n, m % n)

Norm(n, d) ==
    IF d = 0 THEN <<Sign(n), 0>>
    ELSE LET g == GCD(Abs(n), Abs(d))
             s == Sign(d)
         IN  <<(s * n) \div g, (s * d) \div g>>

NaN == <<0, 0>>
Zero == <<0, 1>>
One == <<1, 1>>
Num(n) == <<n, 1>>

IsNaN(x) == x = NaN

\* x + y: inf + (-inf) and anything with NaN are NaN.
Add(x, y) ==
    IF x[2] = 0 \/ y[2] = 0
    THEN IF IsNaN(x) \/ IsNaN(y) THEN NaN
         ELSE IF x[2] = 0 /\ y[2] = 0
              THEN (IF x = y THEN x ELSE NaN)
              ELSE (IF x[2] = 0 THEN x ELSE y)
    ELSE Norm(x[1] * y[2] + y[1] * x[2], x[2] * y[2])

Neg(x) == <<-x[1], x[2]>>

Sub(x, y) == Add(x, Neg(y))

\* x * y: 0 * inf and anything with NaN are NaN.
Mul(x, y) == Norm(x[1] * y[1], x[2] * y[2])

\* x / y: 0/0 is NaN, x/0 is +-inf, x/inf is 0.
Inv(y) == IF y[1] = 0 THEN Norm(y[2], 0) ELSE Norm(y[2] * Sign(y[1]), Abs(y[1]))

Div(x, y) == Mul(x, Inv(y))

\* x < y, False when either is NaN.
Less(x, y) ==
    IF IsNaN(x) \/ IsNaN(y) THEN FALSE
    ELSE IF x[2] = 0 \/ y[2] = 0
         THEN (IF x[2] = 0 /\ y[2] = 0 THEN x[1] < y[1]
               ELSE IF x[2] = 0 THEN x[1] < 0
               ELSE y[1] > 0)
         ELSE x[1] * y[2] < y[1] * x[2]

\* Series.sum(): the sum of column col over a set of rows, NaN skipped.
RECURSIVE SumCol(_, _)
SumCol(rows, col) ==
    IF rows = {} THEN Zero
    ELSE LET r == CHOOSE r \in rows : TRUE
         IN  Add(IF IsNaN(r[col]) THEN Zero ELSE r[col], SumCol(rows \ {r}, col))

\* The sum of f[c] over the c of S.
RECURSIVE SumFn(_, _)
SumFn(S, f) ==
    IF S = {} THEN 0
    ELSE LET c == CHOOSE c \in S : TRUE IN f[c] + SumFn(S \ {c}, f)

(***************************************************************************)
(* Geometry                                                                *)
(***************************************************************************)
\* The generated layers: a strip of NCols cells, the second one thin.
GenCells == {<<x, 1>> : x \in 1..NCols}

\* The 8x8 plane of the test fixtures: cell <<x, y>> is [x-1,x] x [y-1,y].
FixCells == (1..8) \X (1..8)

\* Area of a cell of the layer `kind` ("gen" or "fix").
CellArea(kind, c) == IF kind = "gen" THEN (IF c[1] = 2 THEN 1 ELSE 60) ELSE 1

\* Two distinct cells share an edge or a corner.
Touch(c1, c2) ==
    /\ c1 # c2
    /\ Abs(c1[1] - c2[1]) <= 1
    /\ Abs(c1[2] - c2[2]) <= 1

\* A layer maps each cell to the id of the zone covering it, or to None.
IdsOf(layer) == {layer[c] : c \in DOMAIN layer} \ {None}

CellsOf(layer, id) == {c \in DOMAIN layer : layer[c] = id}

\* GeoSeries.area of a set of cells.
Area(kind, cells) == SumFn(cells, [c \in cells |-> CellArea(kind, c)])

\* shapely intersects: a common cell, or a common boundary.
Intersects(g1, g2) ==
    \/ g1 \cap g2 # {}
    \/ \E c1 \in g1, c2 \in g2 : Touch(c1, c2)

(***************************************************************************)
(* zone_correspondence.py                                                  *)
(***************************************************************************)
\* The CRS read_zone_shapefiles wants, and another one.
Grid == "EPSG:27700"
Other == "EPSG:4326"

\* The warning of read_zone_shapefiles for a layer of CRS `crs`, if any.
crs_warning(name, crs) ==
    IF crs = None THEN {<<name, "has no CRS">>}
    ELSE IF crs # Grid THEN {<<name, "has CRS">>}
    ELSE {}

\* read_zone_shapefiles: the two layers, each a ReadOutput(feature, geo_type)
\* whose feature carries {name}_id and {name}_area.  A layer without CRS:
\* a warning, then `zone.set_crs = "EPSG:27700"` binds an attribute and
\* leaves the CRS None.  A layer with another CRS: a warning, then
\* GeoSeries.to_crs(..., inplace=True), which has no such parameter
\* (TypeError); zone_2 is read after zone_1.
read_zone_shapefiles(in) ==
    LET bad1 == in.crs1 \notin {None, Grid}
        bad2 == in.crs2 \notin {None, Grid}
    IN  [raised |-> bad1 \/ bad2,
         warned |-> crs_warning("zone_1", in.crs1)
                    \cup (IF bad1 THEN {} ELSE crs_warning("zone_2", in.crs2)),
         out    |-> [form |-> "ReadOutput", kind |-> in.kind, z1 |-> in.z1, z2 |-> in.z2,
                     crs1 |-> in.crs1, crs2 |-> in.crs2]]

\* spatial_zone_correspondence: one row per pair of zones whose geometries
\* intersect (keep_geom_type=False keeps the line and point intersections),
\* with intersection_area / {name}_area in each direction.
spatial_zone_correspondence(zs) ==
    { [a   |-> a,
       b   |-> b,
       f12 |-> Div(Num(Area(zs.kind, CellsOf(zs.z1, a) \cap CellsOf(zs.z2, b))),
                   Num(Area(zs.kind, CellsOf(zs.z1, a)))),
       f21 |-> Div(Num(Area(zs.kind, CellsOf(zs.z1, a) \cap CellsOf(zs.z2, b))),
                   Num(Area(zs.kind, CellsOf(zs.z2, b))))]
      : <<a, b>> \in { p \in IdsOf(zs.z1) \X IdsOf(zs.z2) :
                         Intersects(CellsOf(zs.z1, p[1]), CellsOf(zs.z2, p[2])) } }

\* sliver_tolerance, the default of ZoningTranslationInputs, as a float.
sliver_tolerance == <<49, 50>>

\* x < 1 - tolerance as the doubles compare.  1 - 0.98 evaluates to
\* 0.020000000000000018, above 1/50, so a factor of exactly 1/50 is below it.
below_tolerance(x, tolerance) ==
    IF tolerance = sliver_tolerance
    THEN ~IsNaN(x) /\ ~Less(Sub(One, tolerance), x)
    ELSE Less(x, Sub(One, tolerance))

\* A filter that takes a row for a slither when either factor is below.
slither_either(r, tolerance) ==
    \/ below_tolerance(r.f12, tolerance)
    \/ below_tolerance(r.f21, tolerance)

\* find_slithers: <<slithers, no_slithers>>; a slither has both factors
\* below 1 - tolerance.
slither_filter(r, tolerance) ==
    /\ below_tolerance(r.f12, tolerance)
    /\ below_tolerance(r.f21, tolerance)

find_slithers(rows, tolerance) ==
    << {r \in rows : slither_filter(r, tolerance)},
       {r \in rows : ~slither_filter(r, tolerance)} >>

\* rounding_correction on the column factor_col, grouped by from_col.
\* counts == 1: the factor becomes 1.  counts > 1: the factor is multiplied
\* by 1 + (1 - total) / total, total the group's sum.  Any negative factor
\* afterwards raises ValueError (raised).
Group(rows, from_col, g) == {r \in rows : r[from_col] = g}

\* A correction that adds the group's difference instead of dividing by the
\* group's total.
correction_additive(rows, from_col, factor_col, g) ==
    Add(One, Sub(One, SumCol(Group(rows, from_col, g), factor_col)))

correction(rows, from_col, factor_col, g) ==
    LET total == SumCol(Group(rows, from_col, g), factor_col)
    IN  Add(One, Div(Sub(One, total), total))

rounding_correction(rows, from_col, factor_col) ==
    LET corrected ==
            { IF Cardinality(Group(rows, from_col, r[from_col])) = 1
              THEN [r EXCEPT ![factor_col] = One]
              ELSE [r EXCEPT ![factor_col] =
                        Mul(r[factor_col],
                            correction(rows, from_col, factor_col, r[from_col]))]
              : r \in rows }
        negatives == {r \in corrected : Less(r[factor_col], Zero)}
    IN  [raised |-> negatives # {}, rows |-> corrected]

\* round_zone_correspondence: rounding_correction of each direction on a
\* copy of the input, the second result joined to the first on the ids.
round_zone_correspondence(rows) ==
    LET one == rounding_correction(rows, "a", "f12")
        two == rounding_correction(rows, "b", "f21")
    IN  [raised |-> one.raised \/ two.raised,
         rows   |-> { [r EXCEPT !.f21 =
                          (CHOOSE q \in two.rows : q.a = r.a /\ q.b = r.b).f21]
                      : r \in one.rows }]

\* missing_zones_check: the ids of each layer that are not among the
\* table's index values.
\* A check that reports no zone.
missing_zones_none(zs, rows) == [z1 |-> {}, z2 |-> {}]

missing_zones_check(zs, rows) ==
    [z1 |-> {id \in IdsOf(zs.z1) : id \notin {r.a : r \in rows}},
     z2 |-> {id \in IdsOf(zs.z2) : id \notin {r.b : r \in rows}}]

(***************************************************************************)
(* weighted_funcs.py                                                       *)
(***************************************************************************)
\* The lower layer maps each cell to a lower zone id, or to NoLower.
\* The ids of the lower layer: 1, 2, ...; 0 marks a cell no lower zone covers.
LowerIds(lower) == {l \in {lower[c] : c \in DOMAIN lower} : l >= 1}

\* A join that gives a lower zone without a record the weight 1.
_weighted_lower_filled(in) ==
    [layer |-> in.lower,
     weight |-> [l \in LowerIds(in.lower) |->
                    IF l \in DOMAIN in.weight THEN in.weight[l] ELSE One],
     missing |-> Cardinality(LowerIds(in.lower) \ DOMAIN in.weight),
     lower_area |-> [l \in LowerIds(in.lower) |-> Area(in.kind, CellsOf(in.lower, l))]]

\* _weighted_lower: the lower layer joined to the weighting data (NaN where
\* the data has no record), with lower_area; `missing` is the number of NaN
\* weights, the count of the warning of lines 48-53.
_weighted_lower(in) ==
    [layer |-> in.lower,
     weight |-> [l \in LowerIds(in.lower) |->
                    IF l \in DOMAIN in.weight THEN in.weight[l] ELSE NaN],
     missing |-> Cardinality({l \in LowerIds(in.lower) :
                                 l \notin DOMAIN in.weight \/ IsNaN(in.weight[l])}),
     lower_area |-> [l \in LowerIds(in.lower) |-> Area(in.kind, CellsOf(in.lower, l))]]

\* A feature of a zone gdf: an id with its geometry, the polygon `cells` or,
\* for a row of a point shapefile, the point `dot` (the cell it lies in).
NoCell == <<0, 0>>

Features(layer) ==
    {[id |-> i, cells |-> CellsOf(layer, i), dot |-> NoCell] : i \in IdsOf(layer)}

PointFeatures(points) ==
    {[id |-> i, cells |-> {}, dot |-> points[i]] : i \in DOMAIN points}

\* zone.area < tolerance; a point buffered by 0.1 has area 0.0314.
is_point(kind, f, tolerance) ==
    IF f.dot # NoCell THEN TRUE ELSE Area(kind, f.cells) < tolerance

\* sjoin(points, lower, predicate="within"): the lower zones f lies within.
within(f, weighting) ==
    { l \in LowerIds(weighting.layer) :
        IF f.dot # NoCell
        THEN f.dot \in CellsOf(weighting.layer, l)
        ELSE f.cells # {} /\ f.cells \subseteq CellsOf(weighting.layer, l) }

\* A point handling that substitutes the lower polygons and cuts nothing
\* out of the other zones.
_point_handling_uncut(kind, gdf, weighting, tolerance) ==
    {f \in gdf : ~is_point(kind, f, tolerance) \/ within(f, weighting) = {}}
    \cup { [id |-> j[1].id, cells |-> CellsOf(weighting.layer, j[2]), dot |-> NoCell]
           : j \in { j \in {f \in gdf : is_point(kind, f, tolerance)}
                             \X LowerIds(weighting.layer) :
                       j[2] \in within(j[1], weighting) } }

\* A point handling that returns the substituted rows alone.
_point_handling_new(kind, gdf, weighting, tolerance) ==
    { [id |-> j[1].id, cells |-> CellsOf(weighting.layer, j[2]), dot |-> NoCell]
      : j \in { j \in {f \in gdf : is_point(kind, f, tolerance)}
                        \X LowerIds(weighting.layer) :
                  j[2] \in within(j[1], weighting) } }

\* _point_handling: every feature below the tolerance that lies within a
\* lower zone takes that zone's polygon (new); the polygons of `new` are cut
\* out of the other geometries, empty results dropped (out).
_point_handling(kind, gdf, weighting, tolerance) ==
    LET points == {f \in gdf : is_point(kind, f, tolerance)}
        new == { [id |-> j[1].id, cells |-> CellsOf(weighting.layer, j[2]), dot |-> NoCell]
                 : j \in { j \in points \X LowerIds(weighting.layer) :
                             j[2] \in within(j[1], weighting) } }
        cut == UNION {n.cells : n \in new}
        out == { g \in { [f EXCEPT !.cells = f.cells \ cut,
                                   !.dot = IF f.dot \in cut THEN NoCell ELSE f.dot]
                         : f \in gdf }
                 : g.cells # {} \/ g.dot # NoCell }
    IN  IF points = {} THEN gdf ELSE out \cup new

\* _create_tiles, lines 145-158: the overlay of zone_1, zone_2 and the
\* weighting (keep_geom_type=True: polygons only), each tile carrying
\* weight * overlay_area / lower_area.
overlay_tiles(kind, gdf1, gdf2, weighting) ==
    { [a |-> t[1].id,
       b |-> t[2].id,
       l |-> t[3],
       w |-> Mul(weighting.weight[t[3]],
                 Div(Num(Area(kind, t[1].cells \cap t[2].cells
                                      \cap CellsOf(weighting.layer, t[3]))),
                     Num(weighting.lower_area[t[3]])))]
      : t \in { t \in gdf1 \X gdf2 \X LowerIds(weighting.layer) :
                  t[1].cells \cap t[2].cells \cap CellsOf(weighting.layer, t[3]) # {} } }

\* The warning of _weighted_lower, lines 48-53: "{missing} zones do not
\* match up between the lower zoning and weighting data."
lower_warning(missing) ==
    IF missing > 0 THEN {<<"lower_zoning", ToString(missing) \o " zones do not match up">>}
    ELSE {}

\* A _create_tiles that overlays zone_2 as it was read: the point
\* handling of zone_2 comes too late for the overlay.
_create_tiles_late(zs, in, points_1, points_2) ==
    LET weighting == _weighted_lower(in)
        gdf1 == IF in.point_handling
                THEN _point_handling(zs.kind, Features(zs.z1) \cup PointFeatures(points_1),
                                     weighting, in.point_tolerance)
                ELSE Features(zs.z1)
    IN  IF zs.form # "dict"
        THEN [raised |-> TRUE, warned |-> {}, tiles |-> {}]
        ELSE [raised |-> FALSE, warned |-> lower_warning(weighting.missing),
              tiles |-> overlay_tiles(zs.kind, gdf1, Features(zs.z2), weighting)]

\* _create_tiles.  Lines 127-128 subscript zones[name]["Zone"]: a TypeError
\* (raised) on the ReadOutput objects of read_zone_shapefiles, before
\* _weighted_lower is called.
_create_tiles(zs, in, points_1, points_2) ==
    LET weighting == _weighted_lower(in)
        gdf1 == IF in.point_handling
                THEN _point_handling(zs.kind, Features(zs.z1) \cup PointFeatures(points_1),
                                     weighting, in.point_tolerance)
                ELSE Features(zs.z1)
        gdf2 == IF in.point_handling
                THEN _point_handling(zs.kind, Features(zs.z2) \cup PointFeatures(points_2),
                                     weighting, in.point_tolerance)
                ELSE Features(zs.z2)
    IN  IF zs.form # "dict"
        THEN [raised |-> TRUE, warned |-> {}, tiles |-> {}]
        ELSE [raised |-> FALSE, warned |-> lower_warning(weighting.missing),
              tiles |-> overlay_tiles(zs.kind, gdf1, gdf2, weighting)]

\* Totals that count an id's tiles instead of summing their weights.
return_counts(tiles, id_col, id) ==
    Num(Cardinality({t \in tiles : t[id_col] = id}))

\* return_totals and the overlap of get_weighted_translation: groupby().sum()
\* of the tiles' weight.
return_totals(tiles, id_col, id) == SumCol({t \in tiles : t[id_col] = id}, "w")

overlap(tiles, a, b) == SumCol({t \in tiles : t.a = a /\ t.b = b}, "w")

\* final_weighted: one row per (zone_1, zone_2) pair that has a tile, with
\* overlap / total in each direction.
final_weighted_rows(tiles) ==
    { [a   |-> p[1],
       b   |-> p[2],
       f12 |-> Div(overlap(tiles, p[1], p[2]), return_totals(tiles, "a", p[1])),
       f21 |-> Div(overlap(tiles, p[1], p[2]), return_totals(tiles, "b", p[2]))]
      : p \in {<<t.a, t.b>> : t \in tiles} }

final_weighted(zs, in, points_1, points_2) ==
    LET res == _create_tiles(zs, in, points_1, points_2)
    IN  [raised |-> res.raised, warned |-> res.warned,
         rows |-> final_weighted_rows(res.tiles)]

(***************************************************************************)
(* utils.py                                                                *)
(***************************************************************************)
\* x coordinate of the point lying in column x of the strip: the centre of
\* the cell, the wide cells 1200 across and the thin one 20.
CellX(x) == IF x = 1 THEN 600 ELSE IF x = 2 THEN 1210 ELSE 1820 + (x - 3) * 1200

Dist(c1, c2) == Abs(CellX(c1[1]) - CellX(c2[1]))

\* The max_dist weighted_translation passes to find_point_matches.
max_dist == 1000

\* cKDTree.query(k=1): for each point of gda a nearest point of gdb; which
\* one among equally near points is the tree's choice.
Nearest(gda, gdb) ==
    { m \in [DOMAIN gda -> DOMAIN gdb] :
        \A p \in DOMAIN gda : \A q \in DOMAIN gdb :
            Dist(gda[p], gdb[m[p]]) <= Dist(gda[p], gdb[q]) }

\* find_point_matches: the pairs (point of gda, its nearest point of gdb)
\* closer than max_dist.
find_point_matches(gda, gdb, m) ==
    { <<p, m[p]>> : p \in {p \in DOMAIN gda : Dist(gda[p], gdb[m[p]]) < max_dist} }

\* points_update: the points whose id is not among the matched ids.
points_update(points, matched_ids) ==
    [i \in DOMAIN points \ matched_ids |-> points[i]]

(***************************************************************************)
(* zone_translation.py: ZoneTranslation                                    *)
(***************************************************************************)
\* str < str: the order sorted() puts the two names in.
RECURSIVE StrLess(_, _)
StrLess(s, t) ==
    IF t = <<>> THEN FALSE
    ELSE IF s = <<>> THEN TRUE
    ELSE IF Head(s) # Head(t) THEN Head(s) < Head(t)
    ELSE StrLess(Tail(s), Tail(t))

\* __init__, lines 62-63: self.names.
names(in) ==
    IF StrLess(in.name_2, in.name_1)
    THEN <<in.name_2, in.name_1>>
    ELSE <<in.name_1, in.name_2>>

\* str(n) of a natural number: its decimal digits, "0" is 48.
RECURSIVE Str(_)
Str(n) == IF n < 10 THEN <<48 + n>> ELSE Str(n \div 10) \o <<48 + (n % 10)>>

\* The method's text: "pop" or "emp".
MethodText(m) == IF m = "pop" THEN <<112, 111, 112>> ELSE <<101, 109, 112>>

\* A path under cache_path: the folder ("" for cache_path itself), and the
\* file's name as the text the configuration gives followed by fixed text.
\* f"{names[0]}_{names[1]}"
folder_name(in) == names(in)[1] \o <<95>> \o names(in)[2]

\* __init__, lines 65-67: the log file.
log_path(in) == [folder |-> <<>>, stem |-> folder_name(in), rest |-> ".log"]

\* _post_processing, line 265.
workbook_path(in) ==
    [folder |-> folder_name(in), stem |-> <<>>, rest |-> "missing_zones_log.xlsx"]

\* out_name: line 99 (spatial) and line 191 (weighted), without the word
\* "spatial", which is fixed text.  "_to_" is 95, 116, 111, 95.
out_name(in) ==
    names(in)[1] \o <<95, 116, 111, 95>> \o names(in)[2]
    \o (IF in.mode = "spatial" THEN <<>>
        ELSE <<95>> \o MethodText(in.method) \o <<95>> \o Str(in.weight_data_year))

\* Lines 100 and 192: the factor table.
csv_path(in) ==
    [folder |-> folder_name(in), stem |-> out_name(in),
     rest |-> IF in.mode = "spatial" THEN "_spatial.csv" ELSE ".csv"]

\* Lines 101 and 193: the copy of the configuration.
yml_path(in) ==
    [folder |-> folder_name(in), stem |-> out_name(in),
     rest |-> IF in.mode = "spatial" THEN "_spatial.yml" ELSE ".yml"]

VARIABLES
    inp,      \* params: the configuration and the files it names
    pc,       \* where the running method is
    zones,    \* the value read_zone_shapefiles returned
    points,   \* points_1 and points_2 (<<>> for None)
    matches,  \* the rows find_point_matches returned
    table,    \* the translation table the method holds
    layout,   \* "columns" or "index": where `table` keeps the two ids
    missing,  \* the reports missing_zones_check returned
    files,    \* the files written under cache_path
    err,      \* the exception that ended the method, or None
    again,    \* what round_zone_correspondence returned for its own output
    warned    \* the warnings emitted so far

vars == <<inp, pc, zones, points, matches, table, layout, missing, files, err, again, warned>>

Ids1 == {"A", "B"}
Ids2 == {"X", "Y"}
PointIds1 == {"P1", "P2"}
PointIds2 == {"Q1", "Q2"}

\* Largest lower weight of the generated weighting data.
MaxWeight == 2
Weights == {Num(w) : w \in (-1)..MaxWeight}

\* The layers of the fixtures zone_1_shape, zone_2_shape and lower_zone, and
\* the weights of the fixture's weighting data.
fixture_zone_1_shape ==
    [c \in FixCells |->
        IF c[2] <= 3 THEN "C" ELSE IF c[1] <= 4 THEN "A" ELSE "B"]

fixture_zone_2_shape ==
    [c \in FixCells |->
        IF c[2] >= 5 THEN (IF c[1] <= 3 THEN "W" ELSE "X")
        ELSE (IF c[1] <= 3 THEN "Y" ELSE "Z")]

\* Zone k is the square [2i, 2i+2] x [2j, 2j+2], i = (k-1) div 4 and
\* j = (k-1) mod 4, turned by 270 degrees about (4, 4): (x, y) -> (y, 8 - x).
fixture_lower_zone ==
    [c \in FixCells |-> 4 * ((8 - c[2]) \div 2) + ((c[1] - 1) \div 2) + 1]

fixture_lower_weight ==
    [k \in 1..16 |->
        Num(<<10, 20, 20, 30, 20, 10, 10, 10, 30, 20, 20, 30, 30, 30, 10, 10>>[k])]

\* A generated layer names its zones in order: the leftmost zone has the
\* first id.
Layers(first, second) ==
    { l \in [GenCells -> {first, second, None}] :
        \A c \in GenCells : l[c] = second =>
            \E c2 \in GenCells : c2[1] < c[1] /\ l[c2] = first }

\* The generated lower layers have at most two zones, 1 left of 2.
LowerLayers ==
    { l \in [GenCells -> 0..2] :
        \A c \in GenCells : l[c] = 2 =>
            \E c2 \in GenCells : c2[1] < c[1] /\ l[c2] = 1 }

\* The generated zone_2 layers of a weighted translation leave no gap.
TotalLayers(first, second) ==
    {l \in Layers(first, second) : \A c \in GenCells : l[c] # None}

NoLayer == [c \in GenCells |-> 0]

\* Text is a sequence of character codes: "_" is 95, "a", "b", "c" are 97,
\* 98, 99.  A zone system's name is "a" unless the configuration says else;
\* weight_data_year is 0 in a configuration without lower zoning.
\* The fields every configuration of a spatial translation has.
SpatialOnly(kind, z1s, z2s) ==
    [mode : {"spatial"}, kind : {kind}, z1 : z1s, z2 : z2s,
     lower : {NoLayer}, weight : {<<>>},
     method : {None}, lower_zoning : {None},
     crs1 : {Grid}, crs2 : {Grid},
     name_1 : {<<97>>}, name_2 : {<<98>>}, weight_data_year : {0},
     filter_slivers : BOOLEAN, rounding : BOOLEAN,
     point_handling : {FALSE}, point_tolerance : {1},
     pts1 : {<<>>}, pts2 : {<<>>}]

Weighted(kind, z1s, z2s, lower, weights, handling, tolerances, pts1s, pts2s) ==
    [mode : {"weighted"}, kind : {kind}, z1 : z1s, z2 : z2s,
     lower : {lower}, weight : weights,
     method : {"pop"}, lower_zoning : {"set"},
     crs1 : {Grid}, crs2 : {Grid},
     name_1 : {<<97>>}, name_2 : {<<98>>}, weight_data_year : {2011},
     filter_slivers : BOOLEAN, rounding : BOOLEAN,
     point_handling : handling, point_tolerance : tolerances,
     pts1 : pts1s, pts2 : pts2s]

\* The object False, which construct() can leave in a field that validation
\* would fill with None or a value.
False == "False"

\* bool(v) of a field's value: None and False are falsy.
Truthy(v) == v \notin {None, False}

\* Configurations asked for a weighted translation with or without a method
\* and with or without a lower zoning: one pair of layers, every option.
Unconfigured ==
    { [w EXCEPT !.method = m,
                !.lower_zoning = l,
                !.lower = IF Truthy(l) THEN w.lower ELSE NoLayer,
                !.weight = IF Truthy(l) THEN w.weight ELSE <<>>]
      : <<w, m, l>> \in
          Weighted("gen", {[c \in GenCells |-> "A"]},
                   {[c \in GenCells |-> IF c[1] = 1 THEN "X" ELSE "Y"]},
                   [c \in GenCells |-> 1], {[l \in {1} |-> One]},
                   {FALSE}, {1}, {<<>>}, {<<>>})
          \X {None, False, "pop"} \X {None, False, "set"} }

\* Shapefiles with and without a CRS, in the grid and in another CRS: one
\* pair of layers, spatial and weighted, every option.
CrsInputs ==
    { [w EXCEPT !.crs1 = c[1], !.crs2 = c[2]]
      : <<w, c>> \in
          (SpatialOnly("gen", {[c \in GenCells |-> "A"]},
                       {[c \in GenCells |-> IF c[1] = 1 THEN "X" ELSE "Y"]})
           \cup Weighted("gen", {[c \in GenCells |-> "A"]},
                         {[c \in GenCells |-> IF c[1] = 1 THEN "X" ELSE "Y"]},
                         [c \in GenCells |-> 1], {[l \in {1} |-> One]},
                         {FALSE}, {1}, {<<>>}, {<<>>}))
          \X ({None, Grid, Other} \X {None, Grid, Other}) }

\* The names of the zone systems: "a", "b", "c", "a_b", "b_c".
Names == {<<97>>, <<98>>, <<99>>, <<97, 95, 98>>, <<98, 95, 99>>}

Methods == {"pop", "emp"}

\* Largest weight_data_year of the generated configurations.
MaxYear == 2012
Years == 2011..MaxYear

\* Configurations that differ in the names of their zone systems, their
\* method and their weight data's year: one pair of layers, default options.
KeyInputs ==
    { [w EXCEPT !.name_1 = k[1], !.name_2 = k[2]]
      : <<w, k>> \in
          { w \in SpatialOnly("gen", {[c \in GenCells |-> "A"]},
                              {[c \in GenCells |-> IF c[1] = 1 THEN "X" ELSE "Y"]})
                : w.filter_slivers /\ w.rounding }
          \X {k \in Names \X Names : k[1] # k[2]} }
    \cup
    { [w EXCEPT !.name_1 = k[1], !.name_2 = k[2], !.method = k[3],
                !.weight_data_year = k[4]]
      : <<w, k>> \in
          { w \in Weighted("gen", {[c \in GenCells |-> "A"]},
                           {[c \in GenCells |-> IF c[1] = 1 THEN "X" ELSE "Y"]},
                           [c \in GenCells |-> 1], {[l \in {1} |-> One]},
                           {FALSE}, {1}, {<<>>}, {<<>>})
                : w.filter_slivers /\ w.rounding }
          \X {k \in Names \X Names \X Methods \X Years : k[1] # k[2]} }

\* Weighting data that has no record for some of the lower zones (one per
\* column), as the mismatched_weighting.csv of test_warning.
MismatchedWeighting ==
    Weighted("gen", {[c \in GenCells |-> IF c[1] = 1 THEN "A" ELSE "B"]},
             {[c \in GenCells |-> IF c[1] = NCols THEN "Y" ELSE "X"]},
             [c \in GenCells |-> c[1]],
             UNION {[S -> {One, Num(MaxWeight)}] : S \in SUBSET (1..NCols) \ {1..NCols}},
             {FALSE}, {1}, {<<>>}, {<<>>})

\* A point shapefile: some of the layer's point ids, each in a cell.
PointFiles(ids) ==
    UNION {[S -> GenCells] : S \in {{}, {CHOOSE i \in ids : TRUE}, ids}}

Inputs ==
    SpatialOnly("gen", [GenCells -> Ids1 \cup {None}], [GenCells -> Ids2 \cup {None}])
    \cup SpatialOnly("fix", {fixture_zone_1_shape}, {fixture_zone_2_shape})
    \cup UNION { Weighted("gen", Layers("A", "B"), TotalLayers("X", "Y"), l,
                          [LowerIds(l) -> Weights], {FALSE}, {1}, {<<>>}, {<<>>})
                 : l \in LowerLayers }
    \cup Weighted("fix", {fixture_zone_1_shape}, {fixture_zone_2_shape},
                  fixture_lower_zone, {fixture_lower_weight}, {FALSE}, {1}, {<<>>}, {<<>>})
    \cup Weighted("gen", {[c \in GenCells |-> "A"]},
                  {[c \in GenCells |-> IF c[1] = 2 THEN "Y" ELSE "X"]},
                  [c \in GenCells |-> c[1]], {[l \in 1..NCols |-> One]},
                  BOOLEAN, {1, 2}, PointFiles(PointIds1), PointFiles(PointIds2))
    \cup MismatchedWeighting
    \cup Unconfigured
    \cup CrsInputs
    \cup KeyInputs

NoZones ==
    [form |-> "unread", kind |-> "gen", z1 |-> <<>>, z2 |-> <<>>,
     crs1 |-> None, crs2 |-> None]
NoPoints == [p1 |-> <<>>, p2 |-> <<>>]
NoMissing == [z1 |-> {}, z2 |-> {}]
NoResult == [raised |-> FALSE, rows |-> {}]

Init ==
    /\ inp \in Inputs
    /\ pc = "start"
    /\ zones = NoZones
    /\ points = NoPoints
    /\ matches = {}
    /\ table = {}
    /\ layout = "columns"
    /\ missing = NoMissing
    /\ files = {}
    /\ err = None
    /\ again = NoResult
    /\ warned = {}

\* A _slithers_and_rounding that filters whatever the options say.
_slithers_always(in, rows) ==
    [raised |-> FALSE, rows |-> find_slithers(rows, sliver_tolerance)[2]]

\* _slithers_and_rounding: find_slithers when filter_slivers, then
\* round_zone_correspondence when rounding.
_slithers_and_rounding(in, rows) ==
    LET kept == IF in.filter_slivers
                THEN find_slithers(rows, sliver_tolerance)[2]
                ELSE rows
    IN  IF in.rounding
        THEN round_zone_correspondence(kept)
        ELSE [raised |-> FALSE, rows |-> kept]

\* spatial_translation line 90, weighted_translation lines 124-128: the
\* ValueError of a weighted translation whose method or lower_zoning
\* `is False`, read_zone_shapefiles otherwise.
ReadZoneShapefiles ==
    /\ pc = "start"
    /\ IF inp.mode = "weighted" /\ (inp.method = False \/ inp.lower_zoning = False)
       THEN /\ err' = "ValueError"
            /\ pc' = "failed"
            /\ UNCHANGED <<zones, warned>>
       ELSE LET res == read_zone_shapefiles(inp)
            IN  /\ warned' = warned \cup res.warned
                /\ IF res.raised
                   THEN /\ err' = "TypeError"
                        /\ pc' = "failed"
                        /\ UNCHANGED zones
                   ELSE /\ zones' = res.out
                        /\ pc' = "read"
                        /\ err' = err
    /\ UNCHANGED <<inp, points, matches, table, layout, missing, files, again>>

\* spatial_translation, lines 91-93.
SpatialZoneCorrespondence ==
    /\ pc = "read"
    /\ inp.mode = "spatial"
    /\ table' = spatial_zone_correspondence(zones)
    /\ layout' = "columns"
    /\ pc' = "corr"
    /\ UNCHANGED <<inp, zones, points, matches, missing, files, err, again, warned>>

\* weighted_translation, lines 131-154: both layers name a point shapefile.
\* gda is the layer with more points, points_2 otherwise.
FindPointMatches ==
    /\ pc = "read"
    /\ inp.mode = "weighted"
    /\ inp.pts1 # <<>> /\ inp.pts2 # <<>>
    /\ points' = [p1 |-> inp.pts1, p2 |-> inp.pts2]
    /\ IF Cardinality(DOMAIN inp.pts1) > Cardinality(DOMAIN inp.pts2)
       THEN \E m \in Nearest(inp.pts1, inp.pts2) :
              matches' = { [a |-> pq[1], b |-> pq[2]]
                           : pq \in find_point_matches(inp.pts1, inp.pts2, m) }
       ELSE \E m \in Nearest(inp.pts2, inp.pts1) :
              matches' = { [a |-> qp[2], b |-> qp[1]]
                           : qp \in find_point_matches(inp.pts2, inp.pts1, m) }
    /\ pc' = "matched"
    /\ UNCHANGED <<inp, zones, table, layout, missing, files, err, again, warned>>

\* weighted_translation, lines 155-160.
PointsUpdate ==
    /\ pc = "matched"
    /\ points' = [p1 |-> points_update(points.p1, {r.a : r \in matches}),
                  p2 |-> points_update(points.p2, {r.b : r \in matches})]
    /\ pc' = "points"
    /\ UNCHANGED <<inp, zones, matches, table, layout, missing, files, err, again, warned>>

\* weighted_translation, lines 129-130 and 161-164: at most one layer names
\* a point shapefile.
ReadPointShapefile ==
    /\ pc = "read"
    /\ inp.mode = "weighted"
    /\ inp.pts1 = <<>> \/ inp.pts2 = <<>>
    /\ points' = [p1 |-> inp.pts1, p2 |-> inp.pts2]
    /\ pc' = "points"
    /\ UNCHANGED <<inp, zones, matches, table, layout, missing, files, err, again, warned>>

\* weighted_translation, lines 165-182: final_weighted, the two factor
\* columns, reset_index.  self.lower_zoning (line 169) is an attribute
\* __init__ sets only for a truthy params.lower_zoning (lines 52-53).
FinalWeighted ==
    /\ pc = "points"
    /\ LET res == final_weighted(zones, inp, points.p1, points.p2)
       IN  IF ~Truthy(inp.lower_zoning)
           THEN /\ pc' = "failed"
                /\ err' = "AttributeError"
                /\ UNCHANGED <<table, layout, warned>>
           ELSE IF res.raised
           THEN /\ pc' = "failed"
                /\ err' = "TypeError"
                /\ UNCHANGED <<table, layout, warned>>
           ELSE /\ pc' = "corr"
                /\ table' = res.rows
                /\ layout' = "columns"
                /\ warned' = warned \cup res.warned
                /\ err' = err
    /\ UNCHANGED <<inp, zones, points, matches, missing, files, again>>

\* spatial_translation line 94, weighted_translation line 184.
\* round_zone_correspondence returns the frame rounding_correction indexed
\* by the two ids.
SlithersAndRounding ==
    /\ pc = "corr"
    /\ LET res == _slithers_and_rounding(inp, table)
       IN  IF res.raised
           THEN /\ pc' = "failed"
                /\ err' = "ValueError"
                /\ UNCHANGED <<table, layout>>
           ELSE /\ pc' = "final"
                /\ table' = res.rows
                /\ layout' = IF inp.rounding THEN "index" ELSE layout
                /\ err' = err
    /\ UNCHANGED <<inp, zones, points, matches, missing, files, again, warned>>

\* _post_processing, lines 255-285.  missing_zones_check reads the ids from
\* the index levels (KeyError on a RangeIndex); the workbook is written; the
\* summary tables read the third and fourth column (IndexError when the ids
\* are in the index and the frame has two columns).
PostProcessing ==
    /\ pc = "final"
    /\ IF layout = "columns"
       THEN /\ err' = "KeyError"
            /\ UNCHANGED <<missing, files>>
       ELSE /\ missing' = missing_zones_check(zones, table)
            /\ files' = files \cup {"missing_zones_log.xlsx"}
            /\ err' = "IndexError"
    /\ pc' = "failed"
    /\ UNCHANGED <<inp, zones, points, matches, table, layout, again, warned>>

Next ==
    \/ ReadZoneShapefiles
    \/ SpatialZoneCorrespondence
    \/ FindPointMatches
    \/ PointsUpdate
    \/ ReadPointShapefile
    \/ FinalWeighted
    \/ SlithersAndRounding
    \/ PostProcessing

Spec == Init /\ [][Next]_vars

(***************************************************************************)
(* The functions called one by one, each on arguments of the form it       *)
(* reads: spatial_zone_correspondence on the ReadOutput objects,           *)
(* _create_tiles on zones[name]["Zone"].                                   *)
(***************************************************************************)
\* The zones argument: zones[name].feature for spatial_zone_correspondence
\* (line 108), zones[name]["Zone"] for _create_tiles (lines 127-128).
ZonesArgument ==
    /\ pc = "start"
    /\ LET res == read_zone_shapefiles(inp)
       IN  /\ warned' = warned \cup res.warned
           /\ IF res.raised
              THEN /\ err' = "TypeError"
                   /\ pc' = "failed"
                   /\ UNCHANGED zones
              ELSE /\ zones' = [res.out EXCEPT
                                   !.form = IF inp.mode = "spatial"
                                            THEN "ReadOutput" ELSE "dict"]
                   /\ pc' = "read"
                   /\ err' = err
    /\ UNCHANGED <<inp, points, matches, table, layout, missing, files, again>>

\* weighted_translation, lines 187-189: the match rows, both factors 1.
AppendMatches ==
    /\ pc = "final"
    /\ inp.mode = "weighted"
    /\ inp.pts1 # <<>> /\ inp.pts2 # <<>>
    /\ table' = table \cup {[a |-> r.a, b |-> r.b, f12 |-> One, f21 |-> One] : r \in matches}
    /\ pc' = "appended"
    /\ UNCHANGED <<inp, zones, points, matches, layout, missing, files, err, again, warned>>

\* round_zone_correspondence on the frame it returned: lines 333-339 select
\* the id columns, which that frame holds in its index (KeyError).
RoundAgain ==
    /\ pc = "final"
    /\ inp.rounding
    /\ again' = [raised |-> TRUE, rows |-> {}]
    /\ err' = "KeyError"
    /\ pc' = "again"
    /\ UNCHANGED <<inp, zones, points, matches, table, layout, missing, files, warned>>

\* round_zone_correspondence on the frame it returned, after reset_index().
ResetIndexRoundAgain ==
    /\ pc = "final"
    /\ inp.rounding
    /\ again' = round_zone_correspondence(table)
    /\ pc' = "reset_again"
    /\ UNCHANGED <<inp, zones, points, matches, table, layout, missing, files, err, warned>>

NextFn ==
    \/ ZonesArgument
    \/ SpatialZoneCorrespondence
    \/ FindPointMatches
    \/ PointsUpdate
    \/ ReadPointShapefile
    \/ FinalWeighted
    \/ SlithersAndRounding
    \/ AppendMatches
    \/ RoundAgain
    \/ ResetIndexRoundAgain

SpecFn == Init /\ [][NextFn]_vars

(***************************************************************************)
(* Properties                                                              *)
(***************************************************************************)
\* DataFrame.round(3): to the nearest thousandth, halves to the even one.
Round3(x) ==
    IF x[2] = 0 THEN x
    ELSE LET t == x[1] * 1000
             q == t \div x[2]
             r == t % x[2]
         IN  Norm(IF 2 * r > x[2] THEN q + 1
                  ELSE IF 2 * r = x[2] THEN q + (q % 2)
                  ELSE q, 1000)

Rounded(rows) ==
    {[r EXCEPT !.f12 = Round3(r.f12), !.f21 = Round3(r.f21)] : r \in rows}

Row(a, b, f12, f21) ==
    [a |-> a, b |-> b, f12 |-> Norm(f12, 1000), f21 |-> Norm(f21, 1000)]

\* The sums of a table's factors are 1 for every id in it.
SumsToOne(rows) ==
    \A r \in rows :
        /\ SumCol(Group(rows, "a", r.a), "f12") = One
        /\ SumCol(Group(rows, "b", r.b), "f21") = One

\* C1: with rounding enabled, in the table round_zone_correspondence
\* produced every zone_1 id has its zone_1_to_zone_2 factors summing to 1 and
\* every zone_2 id has its zone_2_to_zone_1 factors summing to 1.
C1_Conservation ==
    (pc = "final" /\ inp.rounding) => SumsToOne(table)

\* C2: in the final table of a weighted translation with two point
\* shapefiles (the overlay rows and the appended match rows), every id has a
\* factor sum of 1 in its direction, and no point id is in more than one
\* match row.
C2_MatchedPoints ==
    (pc = "appended" /\ inp.rounding) =>
        /\ SumsToOne(table)
        /\ \A r1, r2 \in matches : (r1.a = r2.a \/ r1.b = r2.b) => r1 = r2

\* C3: whatever the rounding and filter_slivers options, the table a
\* translation goes on with after _slithers_and_rounding holds no negative
\* factor: a negative factor ends the run with an error.
C3_NoNegativeFactor ==
    pc \in {"final", "appended"} =>
        \A r \in table : ~Less(r.f12, Zero) /\ ~Less(r.f21, Zero)

\* C4: with filter_slivers and rounding enabled, every factor of the table
\* of a spatial or weighted translation is strictly greater than 0.
C4_PositiveFactors ==
    (pc = "final" /\ inp.filter_slivers /\ inp.rounding) =>
        \A r \in table : Less(Zero, r.f12) /\ Less(Zero, r.f21)

\* C5: after the audit every zone id of each layer is in exactly one of the
\* factor table and that layer's missing-zones report.
C5_Coverage ==
    "missing_zones_log.xlsx" \in files =>
        /\ \A i \in IdsOf(zones.z1) : (i \in {r.a : r \in table}) # (i \in missing.z1)
        /\ \A i \in IdsOf(zones.z2) : (i \in {r.b : r \in table}) # (i \in missing.z2)

\* C5, its case: the audit has run and reports a zone that intersected the
\* other layer, all of whose rows the sliver filter removed.
C5_Witness ==
    /\ "missing_zones_log.xlsx" \in files
    /\ inp.filter_slivers
    /\ \E i \in missing.z1 :
         \E r \in spatial_zone_correspondence(zones) : r.a = i /\ Less(Zero, r.f12)
    /\ table # {}

\* The zone_2 id of the zone_1 zone `i` when both layers are the same zones.
Twin(i) == IF i = "A" THEN "X" ELSE IF i = "B" THEN "Y" ELSE None

SameZones(in) ==
    /\ in.kind = "gen"
    /\ \A c \in GenCells : in.z2[c] = Twin(in.z1[c])

\* C6: translating a layer to itself yields exactly one row per zone, the
\* row (a, a) with both factors 1, and no row (a, a') for another zone a'.
C6_SelfTranslation ==
    (pc = "final" /\ SameZones(inp)) =>
        table = {[a |-> i, b |-> Twin(i), f12 |-> One, f21 |-> One] : i \in IdsOf(inp.z1)}

\* The lower id of the zone_2 zone `i` when zone_2 is the lower layer.
LowerOf(i) == IF i = "X" THEN 1 ELSE IF i = "Y" THEN 2 ELSE 0

LowerIsZone2(in) ==
    /\ in.mode = "weighted" /\ in.kind = "gen"
    /\ \A c \in GenCells : in.lower[c] = LowerOf(in.z2[c])
    /\ \A l \in DOMAIN in.weight : ~Less(in.weight[l], Zero)

\* The table of the spatial translation of the same zones with the same
\* options.
SpatialTable(in, zs) ==
    _slithers_and_rounding(in, spatial_zone_correspondence(zs)).rows

\* C7: when zone_2 is the lower layer and the lower weights are nonnegative,
\* the weighted translation and the spatial translation produce the same
\* table.
C7_LowerAsTarget ==
    (pc = "final" /\ LowerIsZone2(inp)) => table = SpatialTable(inp, zones)

\* Scenario S1: the fixture layers, spatial, default options.
S1 == inp.mode = "spatial" /\ inp.kind = "fix" /\ inp.filter_slivers /\ inp.rounding

S1Expected ==
    { Row("A", "W", 600, 1000), Row("A", "X", 200, 200), Row("A", "Y", 150, 250),
      Row("A", "Z", 50, 50),    Row("B", "X", 800, 800), Row("B", "Z", 200, 200),
      Row("C", "Y", 375, 750),  Row("C", "Z", 625, 750) }

\* C8: the spatial translation of scenario S1 returns the eight expected
\* rows (to 3 decimals): it raises nothing, and the table it holds when it
\* has rounded is the expected one.
C8_ScenarioS1 ==
    S1 => /\ err = None
          /\ pc = "final" => Rounded(table) = S1Expected

\* Scenario S2: the fixture layers and weights, weighted, default options.
S2 == inp.mode = "weighted" /\ inp.kind = "fix" /\ inp.filter_slivers /\ inp.rounding

S2Expected ==
    { Row("A", "W", 529, 1000), Row("A", "X", 176, 176), Row("A", "Y", 235, 235),
      Row("A", "Z", 59, 53),    Row("B", "X", 737, 824), Row("B", "Z", 263, 263),
      Row("C", "Y", 500, 765),  Row("C", "Z", 500, 684) }

\* C9: the weighted translation of scenario S2 returns the eight expected
\* rows (to 3 decimals): it raises nothing, and the table it holds when it
\* has rounded is the expected one.
C9_ScenarioS2 ==
    S2 => /\ err = None
          /\ pc = "final" => Rounded(table) = S2Expected

MatchRows == {[a |-> m.a, b |-> m.b, f12 |-> One, f21 |-> One] : m \in matches}

\* What holds of the matched pairs wherever the translation is: once
\* points_update has run both points are out of their layers; no row the
\* overlay gave carries a matched id; the final table has the pair's row with
\* both factors 1 and no other row for the pair.
MatchedPairsHandled ==
    /\ pc \notin {"read", "matched"} =>
         \A m \in matches : m.a \notin DOMAIN points.p1 /\ m.b \notin DOMAIN points.p2
    /\ pc \in {"corr", "final"} =>
         \A m \in matches : \A r \in table : r.a # m.a /\ r.b # m.b
    /\ pc = "appended" =>
         \A m \in matches :
            /\ {r \in table : r.a = m.a /\ r.b = m.b}
                 = {[a |-> m.a, b |-> m.b, f12 |-> One, f21 |-> One]}
            /\ \A r \in table : (r.a = m.a \/ r.b = m.b) => r \in MatchRows

\* C11: a weighted translation with point shapefiles on both layers that has
\* matched a pair of points goes through without an error, removes both
\* points from their layers before the overlay, gives the pair exactly one
\* row with both factors 1 in the final table, and has neither point id in a
\* row derived from the overlay.
C11_MatchedPairs ==
    (inp.mode = "weighted" /\ matches # {}) => err = None /\ MatchedPairsHandled

\* The tiles the table of a weighted translation was made from.
WeightedTiles == _create_tiles(zones, inp, points.p1, points.p2).tiles

\* NaN, or +-inf as a sentinel.
NotANumber(x) == x[2] = 0

\* C12: in a weighted translation, a zone whose tiles' weights sum to 0 has
\* NaN (or a sentinel) as its factor in that direction in every row of the
\* table the translation goes on with; no number stands in for the division
\* by zero.
C12_ZeroWeight ==
    (pc = "final" /\ inp.mode = "weighted") =>
        \A r \in table :
            /\ return_totals(WeightedTiles, "a", r.a) = Zero => NotANumber(r.f12)
            /\ return_totals(WeightedTiles, "b", r.b) = Zero => NotANumber(r.f21)

\* A configuration without a method or without a lower zoning.
NotConfigured(in) == ~Truthy(in.method) \/ ~Truthy(in.lower_zoning)

\* C13: a weighted translation of a configuration that has no method or no
\* lower zoning ends with an error before anything is done: no shapefile is
\* read, no table is computed and no file is written.
C13_NoStartUnconfigured ==
    (inp.mode = "weighted" /\ NotConfigured(inp)) =>
        /\ zones = NoZones
        /\ table = {}
        /\ files = {}
        /\ pc # "start" => err # None

\* The ids of a table's rows.
Pairs(rows) == {<<r.a, r.b>> : r \in rows}

\* The table _slithers_and_rounding was given: that of
\* spatial_zone_correspondence or that of final_weighted.
FactorBuilderTable ==
    IF inp.mode = "spatial"
    THEN spatial_zone_correspondence(zones)
    ELSE final_weighted_rows(WeightedTiles)

\* C14: whenever _slithers_and_rounding returns, with filter_slivers off the
\* table has the rows (pairs of ids) it was given, none removed; with
\* rounding off every row of the table is a row it was given, no factor
\* changed; with both off the table is the one it was given.
C14_OptionsFrame ==
    [][(pc = "corr" /\ pc' = "final") =>
          /\ ~inp.filter_slivers => Pairs(table') = Pairs(table)
          /\ ~inp.rounding => table' \subseteq table
          /\ (~inp.filter_slivers /\ ~inp.rounding) => table' = table /\ layout' = layout]_vars

\* C14, its case: with filter_slivers off and rounding on, a row the filter
\* would have removed is in the table, its factor rescaled by the rounding.
C14_Witness ==
    /\ pc = "final"
    /\ ~inp.filter_slivers /\ inp.rounding
    /\ \E r \in FactorBuilderTable :
         /\ slither_filter(r, sliver_tolerance)
         /\ Less(Zero, r.f12)
         /\ \E q \in table : q.a = r.a /\ q.b = r.b /\ q.f12 # r.f12

\* The table of the same configuration without point shapefiles.
NoPointsTable ==
    _slithers_and_rounding(
        inp, final_weighted_rows(_create_tiles(zones, inp, <<>>, <<>>).tiles)).rows

\* The weighted translation holds the table it returns: the match rows are
\* appended when both layers name a point shapefile.
TableComplete ==
    \/ pc = "appended"
    \/ pc = "final" /\ (inp.pts1 = <<>> \/ inp.pts2 = <<>>)

\* C15: with point_handling off, the table of a weighted translation whose
\* layers name point shapefiles is the table of the same configuration
\* without them: no row added, no row changed.
C15_PointsIgnored ==
    (inp.mode = "weighted" /\ ~inp.point_handling /\ TableComplete) =>
        table = NoPointsTable

\* C16: read_zone_shapefiles returns for every pair of shapefiles; both
\* layers it returns are in EPSG:27700, never without CRS; a layer that had
\* no CRS or another CRS has been warned about.
C16_GridCrs ==
    /\ (inp.mode = "spatial" /\ pc # "start") => zones.form # "unread"
    /\ zones.form # "unread" =>
         /\ zones.crs1 = Grid /\ zones.crs2 = Grid
         /\ crs_warning("zone_1", inp.crs1) \subseteq warned
         /\ crs_warning("zone_2", inp.crs2) \subseteq warned

\* The key of a run: the names of its zone systems, its method and the year
\* of its weight data.
Key(in) == <<in.name_1, in.name_2, in.method, in.weight_data_year>>

\* The runs another caller may start on the same cache_path.
OtherRuns ==
    [mode : {"spatial"}, name_1 : Names, name_2 : Names,
     method : {None}, weight_data_year : {0}]
    \cup [mode : {"weighted"}, name_1 : Names, name_2 : Names,
          method : Methods, weight_data_year : Years]

\* Every path a run writes to when it goes through.
ArtifactPaths(in) == {log_path(in), workbook_path(in), csv_path(in), yml_path(in)}

\* The paths this run has written to: its log file, opened by __init__, and
\* the audit workbook once _post_processing has written it.
Written ==
    {log_path(inp)}
    \cup (IF "missing_zones_log.xlsx" \in files THEN {workbook_path(inp)} ELSE {})

\* C17: no path this run has written to is a path that a run with another
\* key (zone_1 name, zone_2 name, method, weight year) writes to.
C17_DistinctArtifacts ==
    \A k \in OtherRuns :
        (k.name_1 # k.name_2 /\ Key(k) # Key(inp)) => ArtifactPaths(k) \cap Written = {}

\* The tiles with provenance (a, b, any lower zone), of a, and of b.
TilesOf(a, b) == {t \in WeightedTiles : t.a = a /\ t.b = b}
TilesOfA(a) == {t \in WeightedTiles : t.a = a}
TilesOfB(b) == {t \in WeightedTiles : t.b = b}

\* T(a, b), S_a(a) and S_b(b): sums of tile weights.
T(a, b) == SumCol(TilesOf(a, b), "w")
S_a(a) == SumCol(TilesOfA(a), "w")
S_b(b) == SumCol(TilesOfB(b), "w")

\* C18: the table final_weighted gives a weighted translation has exactly
\* one row for every pair (a, b) that has a tile and no other row, with
\* zone_1_to_zone_2 = T(a,b) / S_a(a) and zone_2_to_zone_1 = T(a,b) / S_b(b).
C18_WeightedFactors ==
    (pc = "corr" /\ inp.mode = "weighted") =>
        /\ Pairs(table) = {<<t.a, t.b>> : t \in WeightedTiles}
        /\ \A r1, r2 \in table : (r1.a = r2.a /\ r1.b = r2.b) => r1 = r2
        /\ \A r \in table :
             /\ r.f12 = Div(T(r.a, r.b), S_a(r.a))
             /\ r.f21 = Div(T(r.a, r.b), S_b(r.b))

\* C18, its case: a pair made of tiles of several lower zones with different
\* weights, in a zone_1 zone split between zone_2 zones.
C18_Witness ==
    /\ pc = "corr" /\ inp.mode = "weighted"
    /\ \E r \in table :
         /\ \E t1, t2 \in TilesOf(r.a, r.b) : t1.l # t2.l /\ t1.w # t2.w
         /\ r.f12 \notin {Zero, One, NaN}
         /\ r.f21 \notin {Zero, One, NaN}

\* The tiles of a spatial translation are the intersections a /\ b, each
\* weighing its area: T(a, b), and the sums over the tiles of a and of b.
AreaT(a, b) == Area(zones.kind, CellsOf(zones.z1, a) \cap CellsOf(zones.z2, b))
AreaS_a(a) == Area(zones.kind, {c \in CellsOf(zones.z1, a) : zones.z2[c] # None})
AreaS_b(b) == Area(zones.kind, {c \in CellsOf(zones.z2, b) : zones.z1[c] # None})

\* C19: in the table spatial_zone_correspondence gives, every row (a, b)
\* whose zones share area has zone_1_to_zone_2 = T(a,b) / S_a(a) and
\* zone_2_to_zone_1 = T(a,b) / S_b(b), with the sums taken over the tiles of
\* a and of b, also when the other layer covers only part of the zone.
C19_SpatialFactors ==
    (pc = "corr" /\ inp.mode = "spatial") =>
        \A r \in table :
            AreaT(r.a, r.b) > 0 =>
                /\ r.f12 = Div(Num(AreaT(r.a, r.b)), Num(AreaS_a(r.a)))
                /\ r.f21 = Div(Num(AreaT(r.a, r.b)), Num(AreaS_b(r.b)))

\* Every lower zone lies inside the zones of both primary layers.
LowerSupported(in) ==
    \A c \in DOMAIN in.lower :
        in.lower[c] >= 1 => in.z1[c] # None /\ in.z2[c] # None

\* The sum of the lower zones' weights (weighted.weight.sum()).
LowerWeightTotal ==
    LET weighting == _weighted_lower(inp)
    IN  SumCol({[l |-> l, w |-> weighting.weight[l]] : l \in LowerIds(weighting.layer)}, "w")

\* The sum of the overlap column of get_weighted_translation.
OverlapTotal ==
    SumCol({[a |-> p[1], b |-> p[2], w |-> overlap(WeightedTiles, p[1], p[2])]
            : p \in Pairs(table)}, "w")

\* C20: in a weighted translation whose lower zones all lie inside both
\* primary layers, the weights of the tiles of _create_tiles sum to the sum
\* of the lower zones' weights, and so do the overlaps T(a, b) over the pairs
\* of get_weighted_translation.
C20_TileWeightTotal ==
    (pc = "corr" /\ inp.mode = "weighted" /\ LowerSupported(inp)) =>
        /\ SumCol(WeightedTiles, "w") = LowerWeightTotal
        /\ OverlapTotal = LowerWeightTotal

\* The two zone gdfs _create_tiles overlays: after _point_handling when
\* point_handling is on (lines 130-144), as read otherwise.
Handled(layer, pts) ==
    IF inp.point_handling
    THEN _point_handling(zones.kind, Features(layer) \cup PointFeatures(pts),
                         _weighted_lower(inp), inp.point_tolerance)
    ELSE Features(layer)

\* The tiles of the overlay of _create_tiles (lines 145-148) with their
\* geometry: one per triple of features whose polygons share ground.
TileGeometry ==
    { [a |-> t[1].id, b |-> t[2].id, l |-> t[3],
       cells |-> t[1].cells \cap t[2].cells \cap CellsOf(inp.lower, t[3])]
      : t \in { t \in Handled(zones.z1, points.p1) \X Handled(zones.z2, points.p2)
                      \X LowerIds(inp.lower) :
                  t[1].cells \cap t[2].cells \cap CellsOf(inp.lower, t[3]) # {} } }

\* The ground all three overlaid layers cover.
CommonSupport ==
    UNION {f.cells : f \in Handled(zones.z1, points.p1)}
    \cap UNION {f.cells : f \in Handled(zones.z2, points.p2)}
    \cap {c \in DOMAIN inp.lower : inp.lower[c] >= 1}

\* C21: the tiles of the overlay of zone_1, zone_2 and the lower layer are
\* pairwise disjoint, their areas sum to the area of the ground the three
\* layers have in common, and no two tiles have the same (zone_1, zone_2,
\* lower) provenance; with point handling on as well.
C21_TilePartition ==
    (pc = "corr" /\ inp.mode = "weighted") =>
        /\ \A t1, t2 \in TileGeometry : t1 # t2 => t1.cells \cap t2.cells = {}
        /\ SumFn(TileGeometry, [t \in TileGeometry |-> Area(zones.kind, t.cells)])
             = Area(zones.kind, CommonSupport)
        /\ \A t1, t2 \in TileGeometry :
             (t1.a = t2.a /\ t1.b = t2.b /\ t1.l = t2.l) => t1 = t2

\* The two frames find_slithers returns for the table FactorBuilder made.
Slithers == find_slithers(table, sliver_tolerance)[1]

NoSlithers == find_slithers(table, sliver_tolerance)[2]

\* C22: find_slithers splits the table into two disjoint parts that hold
\* every row unchanged; a row is among the slithers exactly when both
\* factors are less than 1 - tolerance, and is kept whenever one of them is
\* greater than or equal to 1 - tolerance (1 - tolerance as the doubles give
\* it).
C22_SliverPartition ==
    pc = "corr" =>
        /\ Slithers \cap NoSlithers = {}
        /\ Slithers \cup NoSlithers = table
        /\ \A r \in table :
             /\ r \in Slithers <=>
                  /\ below_tolerance(r.f12, sliver_tolerance)
                  /\ below_tolerance(r.f21, sliver_tolerance)
             /\ ( \/ (~IsNaN(r.f12) /\ ~below_tolerance(r.f12, sliver_tolerance))
                  \/ (~IsNaN(r.f21) /\ ~below_tolerance(r.f21, sliver_tolerance)) )
                => r \in NoSlithers

\* A table with a slither and a row kept for one of its factors only.
C22_Witness ==
    /\ pc = "corr"
    /\ Slithers # {}
    /\ \E r \in NoSlithers :
         Less(r.f12, Sub(One, sliver_tolerance)) /\ ~Less(r.f21, Sub(One, sliver_tolerance))

\* The factor the corrector is to leave in row r: 1 for the only row of its
\* zone, the factor divided by the zone's total otherwise.
Corrected(rows, from_col, factor_col, r) ==
    IF Cardinality(Group(rows, from_col, r[from_col])) = 1
    THEN One
    ELSE Mul(r[factor_col], Inv(SumCol(Group(rows, from_col, r[from_col]), factor_col)))

\* C23: round_zone_correspondence keeps the set of (zone_1, zone_2) rows;
\* in each direction a zone's only row gets the factor 1 and the rows of a
\* zone with several get their factor times 1/C, C the zone's total before;
\* correcting one direction leaves the other direction's factors alone.
C23_RoundingPerDirection ==
    pc = "corr" =>
        /\ Pairs(round_zone_correspondence(table).rows) = Pairs(table)
        /\ Cardinality(round_zone_correspondence(table).rows) = Cardinality(table)
        /\ \A r \in table : \A q \in round_zone_correspondence(table).rows :
             (q.a = r.a /\ q.b = r.b) =>
                 /\ q.f12 = Corrected(table, "a", "f12", r)
                 /\ q.f21 = Corrected(table, "b", "f21", r)
        /\ \A r \in table : \A q \in rounding_correction(table, "a", "f12").rows :
             (q.a = r.a /\ q.b = r.b) => q.f21 = r.f21
        /\ \A r \in table : \A q \in rounding_correction(table, "b", "f21").rows :
             (q.a = r.a /\ q.b = r.b) => q.f12 = r.f12

\* A table where a zone's only row has a factor other than 1 and another
\* zone has several rows whose factors do not sum to 1.
C23_Witness ==
    /\ pc = "corr"
    /\ \E r \in table :
         /\ Cardinality(Group(table, "a", r.a)) = 1
         /\ r.f12 # One
    /\ \E r \in table :
         /\ Cardinality(Group(table, "b", r.b)) > 1
         /\ SumCol(Group(table, "b", r.b), "f21") \notin {One, Zero}
         /\ r.f21 \notin {Zero, NaN}

\* The gdf _create_tiles hands to _point_handling: the layer with the rows
\* of its point shapefile appended (lines 131-135 and 138-142).
PointInput(layer, pts) == Features(layer) \cup PointFeatures(pts)

\* The lower-zone polygons substituted for the point zones of gdf.
Substituted(gdf) ==
    UNION { CellsOf(inp.lower, l) :
            l \in UNION { within(f, _weighted_lower(inp)) :
                          f \in {f \in gdf : is_point(zones.kind, f, inp.point_tolerance)} } }

\* _point_handling of gdf does what C24 says.
PointsSubstituted(gdf) ==
    LET handled == _point_handling(zones.kind, gdf, _weighted_lower(inp), inp.point_tolerance)
    IN  \A f \in gdf :
          IF is_point(zones.kind, f, inp.point_tolerance) /\ within(f, _weighted_lower(inp)) # {}
          THEN {g \in handled : g.id = f.id}
                 = { [id |-> f.id, cells |-> CellsOf(inp.lower, l), dot |-> NoCell]
                     : l \in within(f, _weighted_lower(inp)) }
          ELSE /\ \A g \in handled : g.id = f.id =>
                     /\ g.cells = f.cells \ Substituted(gdf)
                     /\ g.dot = f.dot
               /\ (f.cells \ Substituted(gdf) # {} \/ f.dot # NoCell)
                     => \E g \in handled : g.id = f.id

NoneBelowTolerance(gdf) ==
    \A f \in gdf : f.dot = NoCell /\ Area(zones.kind, f.cells) >= inp.point_tolerance

under_1_zones(rows, id_col, factor_col) ==
    { r[id_col] : r \in { r \in rows :
        Less(SumCol(Group(rows, id_col, r[id_col]), factor_col), <<999999, 1000000>>) } }

\* What the audit of _post_processing logged (lines 291-309): nothing when
\* the method raised before line 288.
under_1_logged ==
    IF err = None
    THEN [z1 |-> under_1_zones(table, "a", "f12"), z2 |-> under_1_zones(table, "b", "f21")]
    ELSE [z1 |-> {}, z2 |-> {}]

\* C26: once _post_processing has been called, its audit has listed, for
\* each layer, every zone whose factors in that layer's direction do not sum
\* to 1, be the total below or above 1.
C26_ConservationAudit ==
    (pc = "failed" /\ err \in {"KeyError", "IndexError"}) =>
        /\ under_1_logged.z1
             = {r.a : r \in {r \in table : SumCol(Group(table, "a", r.a), "f12") # One}}
        /\ under_1_logged.z2
             = {r.b : r \in {r \in table : SumCol(Group(table, "b", r.b), "f21") # One}}

\* The lower zones the weighting data has no weight for.
Unweighted == {l \in LowerIds(inp.lower) : l \notin DOMAIN inp.weight}

\* The tiles cut from lower zones that have a weight.
TilesWithWeight == {t \in WeightedTiles : t.l \notin Unweighted}

\* C27: when lower zones have no record in the weighting data,
\* _weighted_lower warns with their number, final_weighted still returns
\* its table, and the tiles of those lower zones add nothing to the overlap
\* of a pair or to the total of a zone.
C27_MissingWeights ==
    (pc = "corr" /\ inp.mode = "weighted" /\ Unweighted # {}) =>
        /\ err = None
        /\ {w \in warned : w[1] = "lower_zoning"} = lower_warning(Cardinality(Unweighted))
        /\ \A t \in WeightedTiles :
             /\ overlap(WeightedTiles, t.a, t.b) = overlap(TilesWithWeight, t.a, t.b)
             /\ return_totals(WeightedTiles, "a", t.a) = return_totals(TilesWithWeight, "a", t.a)
             /\ return_totals(WeightedTiles, "b", t.b) = return_totals(TilesWithWeight, "b", t.b)

\* Two of three lower zones have no record, and a zone has tiles of a lower
\* zone with a weight and of one without.
C27_Witness ==
    /\ pc = "corr" /\ inp.mode = "weighted"
    /\ Cardinality(Unweighted) = 2
    /\ \E t1 \in TilesWithWeight : \E t2 \in WeightedTiles \ TilesWithWeight : t1.b = t2.b

\* C28: with point handling on, the overlay of zone_1, zone_2 and the lower
\* layer is made of the two layers after point substitution: the table of
\* a step of final_weighted comes from the tiles of both substituted layers.
C28_SubstitutionBeforeOverlay ==
    [][(pc = "points" /\ pc' = "corr" /\ inp.point_handling) =>
          table' = final_weighted_rows(
                       overlay_tiles(zones.kind,
                                     Handled(zones.z1, points.p1),
                                     Handled(zones.z2, points.p2),
                                     _weighted_lower(inp)))]_vars

\* final_weighted has returned with point handling on and a zone of each
\* layer was substituted.
C28_Witness ==
    /\ pc = "corr" /\ inp.mode = "weighted" /\ inp.point_handling
    /\ Handled(zones.z1, points.p1) # PointInput(zones.z1, points.p1)
    /\ Handled(zones.z2, points.p2) # PointInput(zones.z2, points.p2)

\* C29: the stages of a run come in the order FactorBuilder, sliver filter,
\* rounding, audit, writing: the table the audit is given is the
\* FactorBuilder table filtered and then rounded as the options say, and a
\* run that has been through the audit has written the factor table and the
\* copy of the configuration under the same name.
C29_StageOrder ==
    /\ pc = "final" => table = _slithers_and_rounding(inp, FactorBuilderTable).rows
    /\ (pc = "failed" /\ err \in {"KeyError", "IndexError"}) =>
         /\ table = _slithers_and_rounding(inp, FactorBuilderTable).rows
         /\ {csv_path(inp), yml_path(inp)} \subseteq Written
         /\ csv_path(inp).stem = yml_path(inp).stem

(***************************************************************************)
(* find_slithers and missing_zones_check on tables in which one zone_1     *)
(* zone has n equal rows.                                                  *)
(***************************************************************************)
\* Largest number of rows of the zone.
MaxRows == 50

\* The other direction's factor of every row: a sliver's, or 1.
SliverFactors == {<<1, 100>>, One}

\* Zone A split evenly between n zones of zone_2.
SliverTable(n, g) ==
    {[a |-> "A", b |-> ToString(i), f12 |-> Norm(1, n), f21 |-> g] : i \in 1..n}

\* The layers of such a table: A, and the n zones of zone_2.
SliverZones(n) ==
    [form |-> "ReadOutput", kind |-> "gen",
     z1 |-> [c \in {<<1, 1>>} |-> "A"],
     z2 |-> [c \in {<<i, 1>> : i \in 1..n} |-> ToString(c[1])],
     crs1 |-> Grid, crs2 |-> Grid]

InitSliver ==
    /\ inp = CHOOSE w \in SpatialOnly("gen", {[c \in GenCells |-> "A"]},
                                      {[c \in GenCells |-> "X"]}) :
                 w.filter_slivers /\ ~w.rounding
    /\ pc = "sliver_table"
    /\ \E n \in 1..MaxRows : \E g \in SliverFactors :
         /\ table = SliverTable(n, g)
         /\ zones = SliverZones(n)
    /\ points = NoPoints
    /\ matches = {}
    /\ layout = "index"
    /\ missing = NoMissing
    /\ files = {}
    /\ err = None
    /\ again = NoResult
    /\ warned = {}

\* find_slithers on the table; the translation goes on with no_slithers.
FindSlithers ==
    /\ pc = "sliver_table"
    /\ table' = find_slithers(table, sliver_tolerance)[2]
    /\ pc' = "sliver_filtered"
    /\ UNCHANGED <<inp, zones, points, matches, layout, missing, files, err, again, warned>>

\* missing_zones_check on the filtered table, its ids in the index.
MissingZonesCheck ==
    /\ pc = "sliver_filtered"
    /\ missing' = missing_zones_check(zones, table)
    /\ pc' = "sliver_checked"
    /\ UNCHANGED <<inp, zones, points, matches, table, layout, files, err, again, warned>>

NextSliver ==
    \/ FindSlithers
    \/ MissingZonesCheck

SpecSliver == InitSliver /\ [][NextSliver]_vars

\* 1 / (1 - tolerance): 50 for the default tolerance.
RowLimit == Inv(Sub(One, sliver_tolerance))

\* C30: a zone whose factors in its own direction sum to 1 before filtering
\* and which has at most 1 / (1 - tolerance) rows keeps a row in the
\* no_slithers of find_slithers, and is not reported missing after the
\* filter.
C30_ZoneSurvives ==
    /\ pc = "sliver_table" =>
         \A r \in table :
            ( /\ SumCol(Group(table, "a", r.a), "f12") = One
              /\ ~Less(RowLimit, Num(Cardinality(Group(table, "a", r.a)))) )
            => \E q \in NoSlithers : q.a = r.a
    /\ (pc = "sliver_checked" /\ ~Less(RowLimit, Num(Cardinality(IdsOf(zones.z2)))))
         => missing.z1 = {}

====
